---- MODULE Spec2Model ----
(***************************************************************************)
(* The FitPulse dashboard (src/main_app.py): the Streamlit session state   *)
(* (raw_df, cleaned_df), the page menu, and the Step 3 preprocessing       *)
(* pipeline: date parsing, selective aggregation, hourly resampling, null  *)
(* purging, integer hardening, feature extraction and the z-score flag.    *)
(*                                                                         *)
(* Numbers are exact rationals <<numerator, denominator>> (the code works  *)
(* in float64; rounding is not modelled). NaN is <<0, 0>>. A timestamp is  *)
(* a number of minutes since midnight of the day of the log; NaT is -1.    *)
(* A Date text is the pair <<hh, mm>> written in the file.                 *)
(***************************************************************************)
EXTENDS Integers, Sequences, FiniteSets, TLC

VARIABLES menu, session_state, status

vars == <<menu, session_state, status>>

(***************************************************************************)
(* Bounds of the model.                                                    *)
(***************************************************************************)
MaxRows == 3

MaxUploadRows == 2

(***************************************************************************)
(* Rational arithmetic (float64 in the code).                              *)
(***************************************************************************)
NaN == <<0, 0>>

NaT == -1

None == "nan"

IsNaN(x) == x[2] = 0

RECURSIVE GCD(_, _)
GCD(a, b) == IF b = 0 THEN a ELSE GCD(b, a % b)

Abs(a) == IF a < 0 THEN -a ELSE a

Norm(x) ==
  IF x[2] = 0 THEN NaN
  ELSE LET s == IF x[2] < 0 THEN -1 ELSE 1
           g == GCD(Abs(x[1]), Abs(x[2]))
       IN  <<(s * x[1]) \div g, (s * x[2]) \div g>>

Num(i) == <<i, 1>>

RAdd(x, y) == Norm(<<x[1] * y[2] + y[1] * x[2], x[2] * y[2]>>)

RSub(x, y) == Norm(<<x[1] * y[2] - y[1] * x[2], x[2] * y[2]>>)

RMul(x, y) == Norm(<<x[1] * y[1], x[2] * y[2]>>)

RDiv(x, y) == Norm(<<x[1] * y[2], x[2] * y[1]>>)

RLess(x, y) == x[1] * y[2] < y[1] * x[2]

(***************************************************************************)
(* Column classes of the uploaded table.                                   *)
(***************************************************************************)
id_cols == {"User_ID", "Age"}

static_cols == {"Gender", "Weight"}

NumericCols == {"User_ID", "Age", "Weight", "Heart_Rate"}

ObjectCols == {"Gender", "Workout_Type"}

Columns == NumericCols \cup ObjectCols

Missing(col) == IF col \in NumericCols THEN NaN ELSE None

(***************************************************************************)
(* read_csv: a numeric column without a hole is int64, with one float64;   *)
(* a text column is object.                                                *)
(***************************************************************************)
Read_dtype(df, col) ==
  IF col \in ObjectCols THEN "object"
  ELSE IF \E i \in DOMAIN df : IsNaN(df[i][col]) THEN "float64" ELSE "int64"

Read_csv(file) ==
  [rows |-> file, dtypes |-> [c \in Columns |-> Read_dtype(file, c)]]

Is_numeric_dtype(dtype) == dtype \in {"int64", "float64"}

(***************************************************************************)
(* 1. Date format correction.                                              *)
(***************************************************************************)
HoursPerDay == 24

MinutesPerHour == 60

\* To_datetime with an unreadable text defaulted to midnight instead of NaT.
To_datetime_defaulting(text) ==
  IF text[1] \in 0..(HoursPerDay - 1) /\ text[2] \in 0..(MinutesPerHour - 1)
  THEN text[1] * MinutesPerHour + text[2]
  ELSE 0

To_datetime(text) ==
  IF text[1] \in 0..(HoursPerDay - 1) /\ text[2] \in 0..(MinutesPerHour - 1)
  THEN text[1] * MinutesPerHour + text[2]
  ELSE NaT

ParseDates(rows) ==
  [i \in DOMAIN rows |-> [rows[i] EXCEPT !.Date = To_datetime(@)]]

IsDated(r) == r.Date # NaT

Dropna(rows) == SelectSeq(rows, IsDated)

(***************************************************************************)
(* 2. Selective aggregation.                                               *)
(***************************************************************************)
Agg_map(col, dtype) ==
  IF col \in id_cols \/ col \in static_cols THEN "first"
  ELSE IF Is_numeric_dtype(dtype) THEN "mean"
  ELSE "first"

(***************************************************************************)
(* sort_values('Date'): the default sort is not stable, so rows with the   *)
(* same timestamp come out in any order.                                   *)
(***************************************************************************)
Perms(n) ==
  {p \in [1..n -> 1..n] : \A i, j \in 1..n : i # j => p[i] # p[j]}

Sort_values(rows) ==
  LET n == Len(rows)
  IN  {[i \in 1..n |-> rows[p[i]]] :
         p \in {q \in Perms(n) :
                  \A i \in 1..(n - 1) : rows[q[i]].Date <= rows[q[i + 1]].Date}}

(***************************************************************************)
(* resample('H'): one bin per hour from the floor of the first timestamp   *)
(* to the floor of the last.                                               *)
(***************************************************************************)
Floor_H(t) == (t \div MinutesPerHour) * MinutesPerHour

Grid(sorted) ==
  IF Len(sorted) = 0 THEN << >>
  ELSE LET lo == Floor_H(sorted[1].Date)
           hi == Floor_H(sorted[Len(sorted)].Date)
       IN  [k \in 1..((hi - lo) \div MinutesPerHour + 1) |->
              lo + (k - 1) * MinutesPerHour]

InBin(sorted, t) ==
  LET hit(r) == Floor_H(r.Date) = t
  IN  SelectSeq(sorted, hit)

RECURSIVE First(_, _)
First(vals, missing) ==
  IF Len(vals) = 0 THEN missing
  ELSE IF vals[1] # missing THEN vals[1]
  ELSE First(Tail(vals), missing)

RECURSIVE Sum(_)
Sum(vals) ==
  IF Len(vals) = 0 THEN Num(0) ELSE RAdd(vals[1], Sum(Tail(vals)))

NotNaN(x) == ~ IsNaN(x)

\* Mean with the records that lack a value counted in the divisor.
Mean_counting_holes(vals) ==
  LET known == SelectSeq(vals, NotNaN)
  IN  IF Len(known) = 0 THEN NaN ELSE RDiv(Sum(known), Num(Len(vals)))

Mean(vals) ==
  LET known == SelectSeq(vals, NotNaN)
  IN  IF Len(known) = 0 THEN NaN ELSE RDiv(Sum(known), Num(Len(known)))

Agg(how, vals, missing) ==
  IF how = "mean" THEN Mean(vals) ELSE First(vals, missing)

ColumnOf(rows, col) == [i \in DOMAIN rows |-> rows[i][col]]

Resample(sorted, dtypes) ==
  LET grid == Grid(sorted)
  IN  [k \in DOMAIN grid |->
        LET bin == InBin(sorted, grid[k])
        IN  [c \in Columns \cup {"Date"} |->
              IF c = "Date" THEN grid[k]
              ELSE Agg(Agg_map(c, dtypes[c]), ColumnOf(bin, c), Missing(c))]]

\* The dtype of an aggregated column: a mean is float64; 'first' keeps the
\* dtype unless an empty bin puts a hole into an integer column.
Agg_dtype(col, dtype, resampled) ==
  IF Agg_map(col, dtype) = "mean" THEN "float64"
  ELSE IF dtype = "int64" /\ \E k \in DOMAIN resampled : IsNaN(resampled[k][col])
  THEN "float64"
  ELSE dtype

(***************************************************************************)
(* 3. Null purging. interpolate(method='linear') works on row positions:   *)
(* a hole between two known values gets the straight line between them, a  *)
(* hole after the last known value repeats it, a hole before the first     *)
(* known value stays. Then ffill and bfill on every column.                *)
(***************************************************************************)
KnownBefore(col, i) == {j \in 1..(i - 1) : ~ IsNaN(col[j])}

KnownAfter(col, i) == {j \in (i + 1)..Len(col) : ~ IsNaN(col[j])}

SetMax(S) == CHOOSE x \in S : \A y \in S : y <= x

SetMin(S) == CHOOSE x \in S : \A y \in S : x <= y

\* Interpolate that repeats the last known value in every hole (method='pad').
Interpolate_pad(col) ==
  [i \in DOMAIN col |->
    IF ~ IsNaN(col[i]) THEN col[i]
    ELSE IF KnownBefore(col, i) = {} THEN NaN
    ELSE col[SetMax(KnownBefore(col, i))]]

Interpolate(col) ==
  [i \in DOMAIN col |->
    IF ~ IsNaN(col[i]) THEN col[i]
    ELSE LET before == KnownBefore(col, i)
             after  == KnownAfter(col, i)
         IN  IF before = {} THEN NaN
             ELSE LET p == SetMax(before)
                  IN  IF after = {} THEN col[p]
                      ELSE LET q == SetMin(after)
                           IN  RAdd(col[p],
                                    RDiv(RMul(RSub(col[q], col[p]), Num(i - p)),
                                         Num(q - p)))]

Ffill(col, missing) ==
  [i \in DOMAIN col |->
    IF col[i] # missing THEN col[i]
    ELSE LET before == {j \in 1..(i - 1) : col[j] # missing}
         IN  IF before = {} THEN missing ELSE col[SetMax(before)]]

Bfill(col, missing) ==
  [i \in DOMAIN col |->
    IF col[i] # missing THEN col[i]
    ELSE LET after == {j \in (i + 1)..Len(col) : col[j] # missing}
         IN  IF after = {} THEN missing ELSE col[SetMin(after)]]

PurgeColumn(col, dtype, missing) ==
  LET lined == IF Is_numeric_dtype(dtype) THEN Interpolate(col) ELSE col
  IN  Bfill(Ffill(lined, missing), missing)

\* The frame with the given columns put in place of its own.
WithColumns(frame, columns) ==
  [k \in DOMAIN frame |->
    [c \in DOMAIN frame[k] |->
      IF c \in DOMAIN columns THEN columns[c][k] ELSE frame[k][c]]]

PurgeNulls(resampled, dtypes) ==
  WithColumns(resampled,
              [c \in Columns |->
                 PurgeColumn(ColumnOf(resampled, c), dtypes[c], Missing(c))])

(***************************************************************************)
(* 4. Data type hardening: astype(int) cuts the fraction off and raises on *)
(* a NaN.                                                                  *)
(***************************************************************************)
Astype_int(x) ==
  IF x[1] >= 0 THEN Num(x[1] \div x[2]) ELSE Num(-((-x[1]) \div x[2]))

HardenRaises(rows) ==
  \E k \in DOMAIN rows : \E c \in id_cols : IsNaN(rows[k][c])

Harden(rows) ==
  [k \in DOMAIN rows |->
    [c \in DOMAIN rows[k] |->
      IF c \in id_cols THEN Astype_int(rows[k][c]) ELSE rows[k][c]]]

Harden_dtype(col, dtype) == IF col \in id_cols THEN "int64" ELSE dtype

(***************************************************************************)
(* 6. Feature extraction and 7. the z-score baseline on Heart_Rate.        *)
(* Z_Score holds the square of the code's |z| (the root is irrational);    *)
(* |z| > 2.5 is z*z > 25/4. A NaN in the column, or a zero deviation,      *)
(* makes every z NaN and every flag 0.                                     *)
(***************************************************************************)
Hour_of(t) == (t \div MinutesPerHour) % HoursPerDay

ZThresholdNum == 25

ZThresholdDen == 4

Zscore_sq(col) ==
  LET n    == Len(col)
      mean == RDiv(Sum(col), Num(n))
      dev  == [i \in DOMAIN col |-> RSub(col[i], mean)]
      var  == RDiv(Sum([i \in DOMAIN col |-> RMul(dev[i], dev[i])]), Num(n))
  IN  IF n = 0 \/ (\E i \in DOMAIN col : IsNaN(col[i])) \/ var = Num(0)
      THEN [i \in DOMAIN col |-> NaN]
      ELSE [i \in DOMAIN col |-> RDiv(RMul(dev[i], dev[i]), var)]

Is_anomaly(z2) ==
  IF ~ IsNaN(z2) /\ RLess(<<ZThresholdNum, ZThresholdDen>>, z2) THEN 1 ELSE 0

Features(rows) ==
  LET z2 == Zscore_sq(ColumnOf(rows, "Heart_Rate"))
  IN  [k \in DOMAIN rows |->
        [c \in Columns \cup {"Date", "Hour", "Z_Score", "Is_Anomaly"} |->
          IF c = "Hour" THEN Hour_of(rows[k].Date)
          ELSE IF c = "Z_Score" THEN z2[k]
          ELSE IF c = "Is_Anomaly" THEN Is_anomaly(z2[k])
          ELSE rows[k][c]]]

(***************************************************************************)
(* The pipeline on one sorted order of the dated rows: the table it stores *)
(* as cleaned_df, or that it raised.                                       *)
(***************************************************************************)
Pipeline(sorted, raw_dtypes) ==
  LET resampled == Resample(sorted, raw_dtypes)
      agg_dtypes == [c \in Columns |-> Agg_dtype(c, raw_dtypes[c], resampled)]
      purged    == PurgeNulls(resampled, agg_dtypes)
  IN  IF HardenRaises(purged)
      THEN [raised |-> TRUE, rows |-> << >>,
            dtypes |-> [c \in Columns |-> "object"]]
      ELSE [raised |-> FALSE,
            rows   |-> Features(Harden(purged)),
            dtypes |-> [c \in Columns |-> Harden_dtype(c, agg_dtypes[c])]]

Orders(raw) == Sort_values(Dropna(ParseDates(raw.rows)))

Runs(raw) == {Pipeline(sorted, raw.dtypes) : sorted \in Orders(raw)}

(***************************************************************************)
(* The uploaded files. A row is a Date text and a telemetry record; the    *)
(* static fields of a record are those of its user. Line 143 sorts the     *)
(* rows by Date, so one row order per bag of rows is listed, the latest    *)
(* Date text first.                                                        *)
(***************************************************************************)
DateTexts == << <<3, 0>>, <<24, 0>>, <<1, 0>>, <<0, 30>>, <<0, 0>> >>

Profile(u) ==
  IF u = 1 THEN [Age |-> Num(30), Gender |-> "F", Weight |-> Num(70)]
  ELSE [Age |-> Num(50), Gender |-> "M", Weight |-> Num(90)]

Reading(u, hr, workout) ==
  [User_ID |-> Num(u), Age |-> Profile(u).Age, Gender |-> Profile(u).Gender,
   Weight |-> Profile(u).Weight, Heart_Rate |-> hr, Workout_Type |-> workout]

Unlabelled(hr) ==
  [User_ID |-> NaN, Age |-> NaN, Gender |-> None, Weight |-> NaN,
   Heart_Rate |-> hr, Workout_Type |-> None]

Telemetry ==
  << Reading(1, Num(60), "Walk"), Reading(1, Num(80), "Run"),
     Reading(1, NaN, None), Reading(3, Num(80), "Run"), Unlabelled(Num(60)) >>

RowId(d, t) == (d - 1) * Len(Telemetry) + t

RowAt(k) ==
  LET d == DateTexts[((k - 1) \div Len(Telemetry)) + 1]
      t == Telemetry[((k - 1) % Len(Telemetry)) + 1]
  IN  [c \in Columns \cup {"Date"} |-> IF c = "Date" THEN d ELSE t[c]]

Files(rowIds, maxRows) ==
  UNION {{[i \in 1..n |-> RowAt(ix[i])] :
            ix \in {f \in [1..n -> rowIds] :
                      \A i \in 1..(n - 1) : f[i] <= f[i + 1]}} :
         n \in 1..maxRows}

AllRowIds == 1..(Len(DateTexts) * Len(Telemetry))

\* Step 1 of the workflow uploads short files: a reading of user 3 at 03:00,
\* one of user 1 with a corrupt Date, one of user 1 at 00:00, and an
\* unlabelled one at 00:00.
UploadRowIds == {RowId(1, 4), RowId(2, 1), RowId(5, 1), RowId(5, 5)}

(***************************************************************************)
(* The session and the pages.                                              *)
(***************************************************************************)
Step1 == "Step 1: Data Ingestion"

Step2 == "Step 2: Neural Exploratory Analysis"

Step3 == "Step 3: Neural Preprocessing"

Step4 == "Step 4: Anomaly Intelligence"

Step5 == "Step 5: Final Audit & Export"

Menu == {Step1, Step2, Step3, Step4, Step5}

Put(state, key, value) ==
  [k \in DOMAIN state \cup {key} |-> IF k = key THEN value ELSE state[k]]

EmptySession == [k \in {} |-> << >>]

Init ==
  /\ menu = Step1
  /\ session_state = EmptySession
  /\ status = "none"

\* The sidebar radio: the script reruns and draws the chosen page.
SelectMenu(page) ==
  /\ page # menu
  /\ menu' = page
  /\ status' = "none"
  /\ UNCHANGED session_state

\* Step 1: a file in the uploader is read into raw_df.
Upload(file) ==
  /\ menu = Step1
  /\ session_state' = Put(session_state, "raw_df", Read_csv(file))
  /\ status' = "none"
  /\ UNCHANGED menu

\* ExecutePipeline without the copy of line 120: the rows dropped for their
\* Date are dropped from raw_df too.
ExecutePipeline_in_place ==
  /\ menu = Step3
  /\ "raw_df" \in DOMAIN session_state
  /\ \E run \in Runs(session_state["raw_df"]) :
       /\ ~ run.raised
       /\ session_state' =
            Put(Put(session_state, "raw_df",
                    [session_state["raw_df"] EXCEPT
                       !.rows = SelectSeq(@, LAMBDA r : To_datetime(r.Date) # NaT)]),
                "cleaned_df", [rows |-> run.rows, dtypes |-> run.dtypes])
  /\ status' = "complete"
  /\ UNCHANGED menu

\* Step 3, the button: the pipeline runs on a copy of raw_df and stores its
\* result as cleaned_df.
ExecutePipeline ==
  /\ menu = Step3
  /\ "raw_df" \in DOMAIN session_state
  /\ \E run \in Runs(session_state["raw_df"]) :
       /\ ~ run.raised
       /\ session_state' =
            Put(session_state, "cleaned_df",
                [rows |-> run.rows, dtypes |-> run.dtypes])
  /\ status' = "complete"
  /\ UNCHANGED menu

\* Step 3, the button, when astype(int) raises: the script run ends there.
ExecutePipelineRaises ==
  /\ menu = Step3
  /\ "raw_df" \in DOMAIN session_state
  /\ \E run \in Runs(session_state["raw_df"]) : run.raised
  /\ status' = "error"
  /\ UNCHANGED <<menu, session_state>>

Next ==
  \/ \E page \in Menu : SelectMenu(page)
  \/ \E file \in Files(UploadRowIds, MaxUploadRows) : Upload(file)
  \/ ExecutePipeline
  \/ ExecutePipelineRaises

Spec == Init /\ [][Next]_vars

(***************************************************************************)
(* The pipeline alone: Step 3 is open with some file already uploaded.     *)
(***************************************************************************)
InitPipeline ==
  /\ menu = Step3
  /\ \E file \in Files(AllRowIds, MaxRows) :
       session_state = Put(EmptySession, "raw_df", Read_csv(file))
  /\ status = "none"

NextPipeline ==
  \/ ExecutePipeline
  \/ ExecutePipelineRaises

SpecPipeline == InitPipeline /\ [][NextPipeline]_vars

raw_df == session_state["raw_df"]

cleaned_df == session_state["cleaned_df"]

Completed == status = "complete" /\ "cleaned_df" \in DOMAIN session_state

(***************************************************************************)
(* What the claims read: the rows the last execution worked on and the     *)
(* table it stored.                                                        *)
(***************************************************************************)
Dated == Dropna(ParseDates(raw_df.rows))

OutRows == cleaned_df.rows

Users == {Num(1), Num(3)}

RECURSIVE SumOf(_, _)
SumOf(rows, S) ==
  IF S = {} THEN Num(0)
  ELSE LET i == CHOOSE j \in S : TRUE
       IN  RAdd(rows[i].Heart_Rate, SumOf(rows, S \ {i}))

\* The records of the hour that starts at t which carry a heart rate.
Present(t) ==
  {i \in DOMAIN Dated :
     Floor_H(Dated[i].Date) = t /\ ~ IsNaN(Dated[i].Heart_Rate)}

MeanOfPresent(t) == RDiv(SumOf(Dated, Present(t)), Num(Cardinality(Present(t))))

\* The straight line through (t1, v1) and (t2, v2), at t.
Line(t1, v1, t2, v2, t) ==
  RAdd(v1, RDiv(RMul(RSub(v2, v1), Num(t - t1)), Num(t2 - t1)))

OneEntity ==
  \E u \in Users : \A i \in DOMAIN raw_df.rows : raw_df.rows[i].User_ID = u

(***************************************************************************)
(* C6. Interpolation on the grid: in a table of one entity, when the hours *)
(* t1 < t2 hold readings (v1 and v2 their cell values) and no hour between *)
(* them holds one, every output cell t between them has the heart rate     *)
(* v1 + (v2 - v1) * (t - t1) / (t2 - t1).                                  *)
(***************************************************************************)
C6_InterpolationOnGrid ==
  (Completed /\ OneEntity) =>
    \A k1, k2 \in DOMAIN OutRows :
      LET t1 == OutRows[k1].Date
          t2 == OutRows[k2].Date
      IN  ( /\ k1 < k2
            /\ Present(t1) # {}
            /\ Present(t2) # {}
            /\ \A k \in (k1 + 1)..(k2 - 1) : Present(OutRows[k].Date) = {} )
          => \A k \in (k1 + 1)..(k2 - 1) :
               OutRows[k].Heart_Rate =
                 Line(t1, MeanOfPresent(t1), t2, MeanOfPresent(t2),
                      OutRows[k].Date)

\* Readings 60 at 00:00 and 80 at 03:00 of one user: 01:00 holds 66 2/3.
C6_Witness ==
  /\ Completed
  /\ OneEntity
  /\ Len(Dated) = 2
  /\ \E k \in DOMAIN OutRows :
       OutRows[k].Date = 60 /\ OutRows[k].Heart_Rate = <<200, 3>>

(***************************************************************************)
(* C7, as amended. Cell reduction precedes gap repair: the heart rate of a *)
(* cell that holds readings is the arithmetic mean of the readings present *)
(* in it (a record without one is skipped, not repaired); a cell that      *)
(* holds none is filled afterwards over the hourly grid: on the line       *)
(* between the nearest cells with readings, else with the value of the     *)
(* nearest earlier such cell, else of the nearest later one, and stays     *)
(* missing when no cell holds a reading. The cells are those of the one    *)
(* grid of the table, whatever entity their records belong to.             *)
(***************************************************************************)
CellsBefore(k) == {j \in 1..(k - 1) : Present(OutRows[j].Date) # {}}

CellsAfter(k) == {j \in (k + 1)..Len(OutRows) : Present(OutRows[j].Date) # {}}

GridFill(k) ==
  IF CellsBefore(k) # {} /\ CellsAfter(k) # {}
  THEN LET p == SetMax(CellsBefore(k))
           q == SetMin(CellsAfter(k))
       IN  Line(OutRows[p].Date, OutRows[p].Heart_Rate,
                OutRows[q].Date, OutRows[q].Heart_Rate, OutRows[k].Date)
  ELSE IF CellsBefore(k) # {} THEN OutRows[SetMax(CellsBefore(k))].Heart_Rate
  ELSE IF CellsAfter(k) # {} THEN OutRows[SetMin(CellsAfter(k))].Heart_Rate
  ELSE NaN

ReadBefore(i) ==
  {j \in DOMAIN Dated : Dated[j].Date < Dated[i].Date /\ ~ IsNaN(Dated[j].Heart_Rate)}

ReadAfter(i) ==
  {j \in DOMAIN Dated : Dated[j].Date > Dated[i].Date /\ ~ IsNaN(Dated[j].Heart_Rate)}

Latest(S) == CHOOSE j \in S : \A l \in S : Dated[l].Date <= Dated[j].Date

Earliest(S) == CHOOSE j \in S : \A l \in S : Dated[j].Date <= Dated[l].Date

Repaired(i) ==
  IF ~ IsNaN(Dated[i].Heart_Rate) THEN Dated[i].Heart_Rate
  ELSE IF ReadBefore(i) # {} /\ ReadAfter(i) # {}
  THEN LET p == Latest(ReadBefore(i))
           q == Earliest(ReadAfter(i))
       IN  Line(Dated[p].Date, Dated[p].Heart_Rate,
                Dated[q].Date, Dated[q].Heart_Rate, Dated[i].Date)
  ELSE IF ReadBefore(i) # {} THEN Dated[Latest(ReadBefore(i))].Heart_Rate
  ELSE IF ReadAfter(i) # {} THEN Dated[Earliest(ReadAfter(i))].Heart_Rate
  ELSE NaN

RepairedRows == [i \in DOMAIN Dated |-> [Dated[i] EXCEPT !.Heart_Rate = Repaired(i)]]

InCell(t) == {i \in DOMAIN Dated : Floor_H(Dated[i].Date) = t}

DistinctTimes ==
  \A i, j \in DOMAIN Dated : i # j => Dated[i].Date # Dated[j].Date

C1_NoNull ==
  Completed =>
    \A k \in DOMAIN OutRows :
      ~ IsNaN(OutRows[k].Heart_Rate) /\ OutRows[k].Workout_Type # None

(***************************************************************************)
(* C2. Static invariance: every output row that carries the User_ID of an  *)
(* entity holds, in every static column, the value of that entity's        *)
(* chronologically first record.                                           *)
(***************************************************************************)
StaticCols == {"User_ID", "Age", "Gender", "Weight"}

RecordsOf(u) == {i \in DOMAIN Dated : Dated[i].User_ID = u}

FirstOf(u) ==
  {i \in RecordsOf(u) : \A j \in RecordsOf(u) : Dated[i].Date <= Dated[j].Date}

C2_StaticInvariance ==
  Completed =>
    \A u \in Users : \A k \in DOMAIN OutRows :
      (RecordsOf(u) # {} /\ OutRows[k].User_ID = u) =>
        \E i \in FirstOf(u) : \A c \in StaticCols : OutRows[k][c] = Dated[i][c]

(***************************************************************************)
(* C3. Cross-entity independence: the output rows of an entity are those   *)
(* the pipeline gives for the table that holds that entity's records       *)
(* alone.                                                                  *)
(***************************************************************************)
OnlyEntity(u) ==
  LET mine(r) == r.User_ID = u
  IN  SelectSeq(raw_df.rows, mine)

RowsOfEntity(rows, u) ==
  LET mine(r) == r.User_ID = u
  IN  SelectSeq(rows, mine)

C3_EntityIndependence ==
  Completed =>
    \A u \in Users :
      RecordsOf(u) # {} =>
        \E run \in Runs(Read_csv(OnlyEntity(u))) :
          /\ ~ run.raised
          /\ RowsOfEntity(OutRows, u) = RowsOfEntity(run.rows, u)

(***************************************************************************)
(* C4. Identifier type preservation: when User_ID and Age are integers in  *)
(* the input, every output row carries an integer User_ID that was         *)
(* ingested.                                                               *)
(***************************************************************************)
Ingested == {raw_df.rows[i].User_ID : i \in DOMAIN raw_df.rows}

C4_IdentifierPreserved ==
  ( /\ Completed
    /\ raw_df.dtypes["User_ID"] = "int64"
    /\ raw_df.dtypes["Age"] = "int64" ) =>
    /\ cleaned_df.dtypes["User_ID"] = "int64"
    /\ \A k \in DOMAIN OutRows : OutRows[k].User_ID \in Ingested

(***************************************************************************)
(* C5. Monotonic grid: the output timestamps of each entity are the hour   *)
(* boundaries from the floor of its first observed timestamp to the floor  *)
(* of its last, each once, in increasing order.                            *)
(***************************************************************************)
HoursOf(u) ==
  LET lo == Floor_H(Dated[CHOOSE i \in FirstOf(u) : TRUE].Date)
      hi == CHOOSE h \in {Floor_H(Dated[i].Date) : i \in RecordsOf(u)} :
              \A i \in RecordsOf(u) : Floor_H(Dated[i].Date) <= h
  IN  {lo + n * MinutesPerHour : n \in 0..((hi - lo) \div MinutesPerHour)}

C5_MonotonicGrid ==
  Completed =>
    \A u \in Users :
      RecordsOf(u) # {} =>
        LET mine == RowsOfEntity(OutRows, u)
        IN  /\ {mine[k].Date : k \in DOMAIN mine} = HoursOf(u)
            /\ \A k \in 1..(Len(mine) - 1) :
                 mine[k + 1].Date = mine[k].Date + MinutesPerHour

(***************************************************************************)
(* C8. Idempotence on clean input: for a regular table (every Date an hour *)
(* boundary, no missing value, per entity one record per hour over         *)
(* consecutive hours) the output has exactly the input's rows, each with   *)
(* its timestamp and its value in every input column.                      *)
(***************************************************************************)
RegularInput ==
  /\ Len(Dated) = Len(raw_df.rows)
  /\ \A i \in DOMAIN Dated :
       /\ Dated[i].Date = Floor_H(Dated[i].Date)
       /\ \A c \in Columns : Dated[i][c] # Missing(c)
  /\ \A i, j \in DOMAIN Dated :
       (i # j /\ Dated[i].User_ID = Dated[j].User_ID) => Dated[i].Date # Dated[j].Date
  /\ \A u \in Users :
       RecordsOf(u) # {} => {Dated[i].Date : i \in RecordsOf(u)} = HoursOf(u)

SameRecord(out, in) ==
  out.Date = in.Date /\ \A c \in Columns : out[c] = in[c]

C8_CleanInputUnchanged ==
  (Completed /\ RegularInput) =>
    /\ Len(OutRows) = Len(Dated)
    /\ \A i \in DOMAIN Dated : \E k \in DOMAIN OutRows : SameRecord(OutRows[k], Dated[i])

(***************************************************************************)
(* C9. Unparseable timestamps are dropped, not defaulted and not fatal:    *)
(* an execution ends as it ends on the file without the rows whose Date    *)
(* text is no time of day: with the same rows stored (so such a row adds   *)
(* to no cell and does not stretch the grid, which runs from the hour of   *)
(* the earliest readable Date to the hour of the latest), and it raises    *)
(* only if it raises on that file too.                                     *)
(***************************************************************************)
Readable(r) ==
  /\ 0 <= r.Date[1] /\ r.Date[1] < HoursPerDay
  /\ 0 <= r.Date[2] /\ r.Date[2] < MinutesPerHour

ReadableRows == SelectSeq(raw_df.rows, Readable)

ReadableHours == {ReadableRows[i].Date[1] : i \in DOMAIN ReadableRows}

C9_UnparseableDropped ==
  /\ Completed =>
       /\ \E run \in Runs(Read_csv(ReadableRows)) :
            ~ run.raised /\ run.rows = OutRows
       /\ {OutRows[k].Hour : k \in DOMAIN OutRows} =
            {h \in 0..(HoursPerDay - 1) :
               \E a, b \in ReadableHours : a <= h /\ h <= b}
  /\ status = "error" => \E run \in Runs(Read_csv(ReadableRows)) : run.raised

\* A file with a corrupt row and two readable ones, on which the pipeline
\* completed with a grid of two cells or more.
C9_Witness ==
  /\ Completed
  /\ Len(OutRows) >= 2
  /\ \E i \in DOMAIN raw_df.rows : ~ Readable(raw_df.rows[i])
  /\ Len(ReadableRows) >= 2

(***************************************************************************)
(* C10, as claimed. Freshness: whenever Step 4 or Step 5 shows cleaned_df, *)
(* it is the pipeline output for the raw_df now in the session.            *)
(***************************************************************************)
Get(state, key) == IF key \in DOMAIN state THEN <<state[key]>> ELSE << >>

Outputs(raw) ==
  {[rows |-> run.rows, dtypes |-> run.dtypes] :
     run \in {r \in Runs(raw) : ~ r.raised}}

Shown == menu \in {Step4, Step5} /\ "cleaned_df" \in DOMAIN session_state

C10_FreshWhenShown == Shown => cleaned_df \in Outputs(raw_df)

(***************************************************************************)
(* C10, as amended. The pipeline never modifies raw_df, and cleaned_df     *)
(* changes only when a Step 3 execution completes, to the complete output  *)
(* for the raw_df then in the session; a failing execution, a page switch  *)
(* and a later upload leave it as it was (so Step 4 and Step 5 may show    *)
(* the result of an earlier upload).                                       *)
(***************************************************************************)
C10_DerivedOnExecution ==
  [][ /\ menu = Step3 =>
           Get(session_state', "raw_df") = Get(session_state, "raw_df")
      /\ Get(session_state', "cleaned_df") # Get(session_state, "cleaned_df") =>
           /\ menu = Step3
           /\ status' = "complete"
           /\ "raw_df" \in DOMAIN session_state
           /\ session_state'["cleaned_df"] \in Outputs(session_state["raw_df"])
      /\ status' = "error" =>
           Get(session_state', "cleaned_df") = Get(session_state, "cleaned_df")
    ]_vars

\* Step 4 shows the result of an earlier upload: the raw_df now in the
\* session has a corrupt row, gives another table, and was never processed.
C10_Witness ==
  /\ Shown
  /\ menu = Step4
  /\ \E i \in DOMAIN raw_df.rows : To_datetime(raw_df.rows[i].Date) = NaT
  /\ cleaned_df \notin Outputs(raw_df)
  /\ Len(cleaned_df.rows) >= 1

====
